---- MODULE Spec2Model ----
(***************************************************************************)
(* Verification model of the Pytorch-Tutorial notebooks:                   *)
(*   "2. Modules and Custom Models"          (SimpleNet)                   *)
(*   "3. Training and Evaluating a Model"    (LeNet, train / eval loops)   *)
(*   "4. Saving and Loading Model State"     (fine-tuning, checkpoints)    *)
(* The cells of a notebook run top to bottom; a cell that raises stops the *)
(* run.  Calls into torch are modelled by their library semantics.         *)
(***************************************************************************)
EXTENDS Integers, Sequences, FiniteSets, TLC

(***************************************************************************)
(* Bounds of the model                                                     *)
(***************************************************************************)
MaxEpochs == 2          \* the largest epochs tried
MaxPrintEvery == 2      \* the largest print_every tried
MaxTrainSamples == 130  \* the largest len(MNIST_train) tried
MaxTestSamples == 130   \* the largest len(MNIST_test) tried
ValueMod == 3           \* parameter values are abstracted to 0..ValueMod-1
MaxBatch == 4           \* X has 1..MaxBatch rows
MaxArrayLen == 2        \* the arrays of the .npz file have 0..MaxArrayLen elements

(***************************************************************************)
(* Program constants                                                       *)
(***************************************************************************)
batch_size == 64        \* DataLoader(..., batch_size=64)

Values == 0 .. (ValueMod - 1)
\* dataset lengths tried: a single sample, exactly one batch, more than one
\* batch with a short last batch
SampleCounts == {1, batch_size, MaxTrainSamples}
TestSampleCounts == {1, batch_size + 1, MaxTestSamples}
\* image sides tried: MNIST's 28 x 28 and a dataset of 32 x 32 images
ImageSides == {28, 32}

\* The value every failing tensor operation yields instead of a shape.
ShapeError == << >>

(***************************************************************************)
(* Tensor shape arithmetic of the torch layers used by the networks        *)
(***************************************************************************)
\* nn.Conv2d(cin, cout, k, stride, padding) applied to shape x = <<N,C,H,W>>
Conv2dShape(x, cin, cout, k, s, p) ==
    IF x = ShapeError \/ Len(x) # 4 THEN ShapeError
    ELSE IF x[2] # cin \/ x[3] + 2 * p < k \/ x[4] + 2 * p < k THEN ShapeError
    ELSE << x[1], cout, ((x[3] + 2 * p - k) \div s) + 1,
                        ((x[4] + 2 * p - k) \div s) + 1 >>

\* max_pool2d(x, k, stride)
MaxPool2dShape(x, k, s) ==
    IF x = ShapeError \/ Len(x) # 4 THEN ShapeError
    ELSE IF x[3] < k \/ x[4] < k THEN ShapeError
    ELSE << x[1], x[2], ((x[3] - k) \div s) + 1, ((x[4] - k) \div s) + 1 >>

\* number of elements of a 4-d tensor
Numel(x) == x[1] * x[2] * x[3] * x[4]

\* x.view(-1, cols): the row count is inferred from the element count
ViewShape(x, cols) ==
    IF x = ShapeError \/ Len(x) # 4 THEN ShapeError
    ELSE IF Numel(x) = 0 \/ Numel(x) % cols # 0 THEN ShapeError
    ELSE << Numel(x) \div cols, cols >>

\* nn.Linear(fin, fout) applied to a 2-d tensor
LinearShape(x, fin, fout) ==
    IF x = ShapeError \/ Len(x) # 2 THEN ShapeError
    ELSE IF x[2] # fin THEN ShapeError
    ELSE << x[1], fout >>

\* LeNet.forward
LeNetForward(x) ==
    LET c1 == Conv2dShape(x, 1, 20, 5, 1, 0)
        p1 == MaxPool2dShape(c1, 2, 2)
        c2 == Conv2dShape(p1, 20, 50, 5, 1, 0)
        p2 == MaxPool2dShape(c2, 2, 2)
        v  == ViewShape(p2, 4 * 4 * 50)
        f1 == LinearShape(v, 4 * 4 * 50, 500)
        f2 == LinearShape(f1, 500, 10)
    IN  f2

\* SimpleNet.forward for a network built with num_classes = nc
SimpleNetForward(x, nc) ==
    LET c1 == Conv2dShape(x, 3, 64, 11, 4, 2)
        p1 == MaxPool2dShape(c1, 3, 2)
        v  == ViewShape(p1, 64 * 2 * 2)
        f1 == LinearShape(v, 64 * 2 * 2, nc)
    IN  f1

\* len(DataLoader(dataset of n samples, batch_size)), drop_last = False
LoaderLen(n) == (n + batch_size - 1) \div batch_size

\* number of samples in batch number i (0-based) of a dataset of n samples
BatchLen(n, i) == IF (i + 1) * batch_size <= n THEN batch_size ELSE n - i * batch_size

(***************************************************************************)
(* State of notebook 3                                                     *)
(***************************************************************************)
VARIABLES
    pc,            \* the statement the run is about to execute
    epochs,        \* epochs
    print_every,   \* print_every
    train_n,       \* len(MNIST_train)
    test_n,        \* len(MNIST_test)
    side,          \* height and width of the dataset's images
    training,      \* model.training
    params,        \* the model's parameter values (one abstract value)
    grads,         \* the accumulated .grad of the parameters
    exp_avg,       \* Adam's running first moment
    epoch,         \* epoch of the outer loop
    it,            \* batches the current loader iterator has yielded
    batch_ind,     \* batch_ind of the inner loop
    input_shape,   \* input_data.shape
    target_len,    \* target_data.shape[0]
    on_device,     \* the batch has been moved to device
    output,        \* output.shape
    correct,       \* correct
    steps,         \* the steps executed so far for the current batch
    updates,       \* optimizer.step() calls completed
    printed,       \* batch indices of the progress lines written
    accuracy,      \* the accuracy line written, as << numerator, denominator >>
    seen,          \* test samples the test loader has yielded
    matching,      \* samples of the batch whose argmax prediction is the target
    matched,       \* samples forwarded so far whose prediction is the target
    consumed,      \* the << epoch, batch_ind >> the training loader has yielded
    failed_at      \* the statement that raised, "" when none did

(***************************************************************************)
(* State of notebook 4                                                     *)
(***************************************************************************)
VARIABLES
    pc4,           \* the statement the run is about to execute
    fz,            \* parameters the freezing loop has visited
    requires_grad, \* requires_grad of alex_pretrained's named parameters
    shown,         \* the lines written by the named_parameters loop
    w_kind,        \* the architecture of the model the checkpoint is taken of
    model,         \* model: name -> [shape, value]
    optimizer,     \* optimizer: [lr, n] (learning rate, parameters held)
    file1,         \* the file written by torch.save(model, PATH)
    replica,       \* replica
    file2,         \* the file written by torch.save(state, PATH)
    old_state,     \* old_state
    at_save,       \* model.state_dict() at the time state was saved
    before_load,   \* the fresh model's parameters before load_state_dict
    load_result    \* "none", "ok" or "error": how model.load_state_dict ended

(***************************************************************************)
(* State of notebook 2                                                     *)
(***************************************************************************)
VARIABLES
    pc2,           \* the statement the run is about to execute
    net,           \* the network class: "LeNet" or "SimpleNet"
    num_classes,   \* num_classes of SimpleNet
    X,             \* X.shape
    features,      \* the flattened activations entering dropout1, per row
    net_training,  \* model.training
    out_shape,     \* model(X).shape of the last forward pass
    outs           \* the forward passes made: << training, output >>

\* Notebook 3: CustomDataset and the names its __init__ looks up
VARIABLES
    pcD,           \* "construct" before CustomDataset(filename, division),
                   \* "ready" once it returned, "failed" once it raised
    division,      \* the argument division
    np_bound,      \* whether the notebook's globals bind the name np (numpy)
    dtype,         \* the notebook's global dtype, Unbound when there is none
    npz,           \* the arrays of the file: array name -> sequence
    self_x,        \* self.x
    self_y,        \* self.y
    errorD,        \* the exception the constructor raised, "" for none
    returned       \* what the last len(dataset) or dataset[ind] came to

vars3 == << pc, epochs, print_every, train_n, test_n, side, training, params,
            grads, exp_avg, epoch, it, batch_ind, input_shape, target_len,
            on_device, output, correct, steps, updates, printed, accuracy,
            seen, matching, matched, consumed, failed_at >>

vars4 == << pc4, fz, requires_grad, shown, w_kind, model, optimizer, file1,
            replica, file2, old_state, at_save, before_load, load_result >>

vars2 == << pc2, net, num_classes, X, features, net_training, out_shape, outs >>

varsD == << pcD, division, np_bound, dtype, npz, self_x, self_y, errorD,
           returned >>

vars == << vars2, vars3, vars4, varsD >>

conf == << epochs, print_every, train_n, test_n, side >>

tally == << seen, matching, matched >>

TrainPcs == {"to_device", "forward", "loss", "zero_grad", "backward", "step", "print"}
EvalPcs == {"e_to_device", "e_forward", "e_count", "e_pbar"}

\* the state the other variables of notebook 3 start in
Fresh3 ==
    /\ training = TRUE
    /\ grads = 0
    /\ exp_avg = 0
    /\ epoch = 0
    /\ it = 0
    /\ batch_ind = 0
    /\ input_shape = ShapeError
    /\ target_len = 0
    /\ on_device = FALSE
    /\ output = ShapeError
    /\ correct = 0
    /\ steps = << >>
    /\ updates = 0
    /\ printed = << >>
    /\ accuracy = << >>
    /\ seen = 0
    /\ matching = 0
    /\ matched = 0
    /\ consumed = << >>
    /\ failed_at = ""

\* notebook 3 is not the notebook being run
Off3 ==
    /\ pc = "off"
    /\ epochs = 1
    /\ print_every = 1
    /\ train_n = 1
    /\ test_n = 1
    /\ side = 28
    /\ params = 0
    /\ Fresh3

\* notebook 3 up to model = LeNet().to(device); optimizer = optim.Adam(...)
Start3 ==
    /\ pc = "model_train"
    /\ epochs \in {1, MaxEpochs}
    /\ print_every \in {1, MaxPrintEvery}
    /\ train_n \in SampleCounts
    /\ test_n \in TestSampleCounts
    /\ side \in ImageSides
    /\ params \in Values
    /\ Fresh3

(***************************************************************************)
(* Notebook 3: the training cells                                          *)
(***************************************************************************)
\* a statement of the loop body completes: record it and move on
Advance(step, next) ==
    /\ steps' = Append(steps, step)
    /\ pc' = next

\* Abort as a loop that caught the exception and tried the batch again
AbortRetries ==
    /\ pc' = IF pc \in {"e_to_device", "e_forward", "e_count"}
               THEN "e_to_device" ELSE "to_device"
    /\ failed_at' = pc

\* a statement raises: nothing catches it, the run stops there
Abort ==
    /\ pc' = "aborted"
    /\ failed_at' = pc

\* model = model.train()
ModelTrain ==
    /\ pc = "model_train"
    /\ training' = TRUE
    /\ pc' = "epoch_head"
    /\ UNCHANGED << varsD, vars2, vars4, tally, consumed, conf, accuracy, params, grads, exp_avg, epoch, it, batch_ind,
                    input_shape, target_len, on_device, output, correct,
                    steps, updates, printed, failed_at >>

\* for epoch in range(epochs):
EpochHead ==
    /\ pc = "epoch_head"
    /\ IF epoch < epochs
          THEN /\ pc' = "fetch"
               /\ it' = 0
          ELSE /\ pc' = "model_eval"
               /\ it' = it
    /\ UNCHANGED << varsD, vars2, vars4, tally, consumed, conf, accuracy, training, params, grads, exp_avg, epoch, batch_ind,
                    input_shape, target_len, on_device, output, correct,
                    steps, updates, printed, failed_at >>

\* Fetch as a loader built with drop_last=True would yield
FetchDropsLast ==
    /\ pc = "fetch"
    /\ IF (it + 1) * batch_size <= train_n
          THEN /\ batch_ind' = it
               /\ it' = it + 1
               /\ input_shape' = << BatchLen(train_n, it), 1, side, side >>
               /\ target_len' = BatchLen(train_n, it)
               /\ on_device' = FALSE
               /\ steps' = << >>
               /\ consumed' = Append(consumed, << epoch, it >>)
               /\ pc' = "to_device"
          ELSE /\ pc' = "epoch_end"
               /\ UNCHANGED << batch_ind, it, input_shape, target_len,
                               on_device, steps, consumed >>
    /\ UNCHANGED << varsD, vars2, vars4, tally, conf, accuracy, training, params, grads, exp_avg, epoch, output,
                    correct, updates, printed, failed_at >>

\* for batch_ind, (input_data, target_data) in enumerate(train_data_loader):
Fetch ==
    /\ pc = "fetch"
    /\ IF it < LoaderLen(train_n)
          THEN /\ batch_ind' = it
               /\ it' = it + 1
               /\ input_shape' = << BatchLen(train_n, it), 1, side, side >>
               /\ target_len' = BatchLen(train_n, it)
               /\ on_device' = FALSE
               /\ steps' = << >>
               /\ consumed' = Append(consumed, << epoch, it >>)
               /\ pc' = "to_device"
          ELSE /\ pc' = "epoch_end"
               /\ UNCHANGED << batch_ind, it, input_shape, target_len,
                               on_device, steps, consumed >>
    /\ UNCHANGED << varsD, vars2, vars4, tally, conf, accuracy, training, params, grads, exp_avg, epoch, output,
                    correct, updates, printed, failed_at >>

\* input_data, target_data = input_data.to(device), target_data.to(device)
ToDevice ==
    /\ pc = "to_device"
    /\ on_device' = TRUE
    /\ Advance("to_device", "forward")
    /\ UNCHANGED << varsD, vars2, vars4, tally, consumed, conf, accuracy, training, params, grads, exp_avg, epoch, it,
                    batch_ind, input_shape, target_len, output, correct,
                    updates, printed, failed_at >>

\* output = model(input_data)
Forward ==
    /\ pc = "forward"
    /\ IF LeNetForward(input_shape) = ShapeError
          THEN /\ Abort
               /\ UNCHANGED << output, steps >>
          ELSE /\ output' = LeNetForward(input_shape)
               /\ Advance("forward", "loss")
               /\ UNCHANGED failed_at
    /\ UNCHANGED << varsD, vars2, vars4, tally, consumed, conf, accuracy, training, params, grads, exp_avg, epoch, it,
                    batch_ind, input_shape, target_len, on_device, correct,
                    updates, printed >>

\* Loss as a loop body without optimizer.zero_grad() would leave it
LossSkipsZeroGrad ==
    /\ pc = "loss"
    /\ IF output[1] # target_len
          THEN /\ Abort
               /\ UNCHANGED steps
          ELSE /\ Advance("loss", "backward")
               /\ UNCHANGED failed_at
    /\ UNCHANGED << varsD, vars2, vars4, tally, consumed, conf, accuracy, training, params, grads,
                    exp_avg, epoch, it, batch_ind, input_shape, target_len,
                    on_device, output, correct, updates, printed >>

\* loss = F.cross_entropy(output, target_data)
Loss ==
    /\ pc = "loss"
    /\ IF output[1] # target_len
          THEN /\ Abort
               /\ UNCHANGED steps
          ELSE /\ Advance("loss", "zero_grad")
               /\ UNCHANGED failed_at
    /\ UNCHANGED << varsD, vars2, vars4, tally, consumed, conf, accuracy, training, params, grads, exp_avg, epoch, it,
                    batch_ind, input_shape, target_len, on_device, output,
                    correct, updates, printed >>

\* ZeroGrad as a call that zeroed the parameters with their gradients
ZeroGradClearsParams ==
    /\ pc = "zero_grad"
    /\ grads' = 0
    /\ params' = 0
    /\ Advance("zero_grad", "backward")
    /\ UNCHANGED << varsD, vars2, vars4, tally, consumed, conf, accuracy, training, exp_avg, epoch,
                    it, batch_ind, input_shape, target_len, on_device, output,
                    correct, updates, printed, failed_at >>

\* optimizer.zero_grad()
ZeroGrad ==
    /\ pc = "zero_grad"
    /\ grads' = 0
    /\ Advance("zero_grad", "backward")
    /\ UNCHANGED << varsD, vars2, vars4, tally, consumed, conf, accuracy, training, params, exp_avg, epoch, it, batch_ind,
                    input_shape, target_len, on_device, output, correct,
                    updates, printed, failed_at >>

\* loss.backward(): the batch's gradient is added to the accumulated .grad
Backward ==
    /\ pc = "backward"
    /\ \E g \in Values : grads' = (grads + g) % ValueMod
    /\ Advance("backward", "step")
    /\ UNCHANGED << varsD, vars2, vars4, tally, consumed, conf, accuracy, training, params, exp_avg, epoch, it, batch_ind,
                    input_shape, target_len, on_device, output, correct,
                    updates, printed, failed_at >>

\* optimizer.step(): Adam folds .grad into its running moment and moves the
\* parameters by it
OptimizerStep ==
    /\ pc = "step"
    /\ exp_avg' = (exp_avg + grads) % ValueMod
    /\ params' = (params + ValueMod - exp_avg') % ValueMod
    /\ updates' = updates + 1
    /\ Advance("step", "print")
    /\ UNCHANGED << varsD, vars2, vars4, tally, consumed, conf, accuracy, training, grads, epoch, it, batch_ind, input_shape,
                    target_len, on_device, output, correct, printed,
                    failed_at >>

\* if batch_ind % print_every == 0: print(train_log, end='\\r')
PrintProgress ==
    /\ pc = "print"
    /\ printed' = IF batch_ind % print_every = 0
                    THEN Append(printed, << epoch, batch_ind >>)
                    ELSE printed
    /\ pc' = "fetch"
    /\ UNCHANGED << varsD, vars2, vars4, tally, consumed, conf, accuracy, training, params, grads, exp_avg, epoch, it,
                    batch_ind, input_shape, target_len, on_device, output,
                    correct, steps, updates, failed_at >>

\* print() closing the epoch; the outer loop takes the next epoch
EpochEnd ==
    /\ pc = "epoch_end"
    /\ epoch' = epoch + 1
    /\ pc' = "epoch_head"
    /\ UNCHANGED << varsD, vars2, vars4, tally, consumed, conf, accuracy, training, params, grads, exp_avg, it, batch_ind,
                    input_shape, target_len, on_device, output, correct,
                    steps, updates, printed, failed_at >>

\* any torch call of the loop body may raise (device mismatch, out of
\* memory, ...)
Raise ==
    /\ pc \in TrainPcs \ {"print"}
    /\ Abort
    /\ UNCHANGED << varsD, vars2, vars4, tally, consumed, conf, accuracy, training, params, grads, exp_avg, epoch, it,
                    batch_ind, input_shape, target_len, on_device, output,
                    correct, steps, updates, printed >>

Train ==
    \/ Raise
    \/ ModelTrain \/ EpochHead \/ Fetch \/ ToDevice \/ Forward \/ Loss
    \/ ZeroGrad \/ Backward \/ OptimizerStep \/ PrintProgress \/ EpochEnd

(***************************************************************************)
(* Notebook 3: the evaluation cells                                        *)
(***************************************************************************)
\* the numbers of samples of a batch of n whose prediction may be the target
CorrectCounts(n) == {0, 1, n - 1, n} \cap (0 .. n)

\* ModelEval as a cell that never switched the mode
ModelEvalKeepsMode ==
    /\ pc = "model_eval"
    /\ training' = training
    /\ pc' = "e_init"
    /\ UNCHANGED << varsD, vars2, vars4, tally, consumed, conf, accuracy, params, grads, exp_avg,
                    epoch, it, batch_ind, input_shape, target_len, on_device,
                    output, correct, steps, updates, printed, failed_at >>

\* model = model.eval()
ModelEval ==
    /\ pc = "model_eval"
    /\ training' = FALSE
    /\ pc' = "e_init"
    /\ UNCHANGED << varsD, vars2, vars4, tally, consumed, conf, accuracy, params, grads, exp_avg, epoch, it,
                    batch_ind, input_shape, target_len, on_device, output,
                    correct, steps, updates, printed, failed_at >>

\* correct = 0; with torch.no_grad(): with tqdm(...) as pbar:
EvalInit ==
    /\ pc = "e_init"
    /\ correct' = 0
    /\ it' = 0
    /\ pc' = "e_fetch"
    /\ UNCHANGED << varsD, vars2, vars4, tally, consumed, conf, accuracy, training, params, grads, exp_avg, epoch,
                    batch_ind, input_shape, target_len, on_device, output,
                    steps, updates, printed, failed_at >>

\* for batch_ind, (input_data, target_data) in enumerate(test_data_loader):
EvalFetch ==
    /\ pc = "e_fetch"
    /\ IF it < LoaderLen(test_n)
          THEN /\ batch_ind' = it
               /\ it' = it + 1
               /\ input_shape' = << BatchLen(test_n, it), 1, side, side >>
               /\ target_len' = BatchLen(test_n, it)
               /\ on_device' = FALSE
               /\ seen' = seen + BatchLen(test_n, it)
               /\ pc' = "e_to_device"
          ELSE /\ pc' = "report"
               /\ UNCHANGED << batch_ind, it, input_shape, target_len,
                               on_device, seen >>
    /\ UNCHANGED << varsD, vars2, vars4, matching, matched, consumed, conf, accuracy, training, params, grads, exp_avg, epoch,
                    output, correct, steps, updates, printed, failed_at >>

\* input_data, target_data = input_data.to(device), target_data.to(device)
EvalToDevice ==
    /\ pc = "e_to_device"
    /\ on_device' = TRUE
    /\ pc' = "e_forward"
    /\ UNCHANGED << varsD, vars2, vars4, tally, consumed, conf, accuracy, training, params, grads, exp_avg, epoch,
                    it, batch_ind, input_shape, target_len, output, correct,
                    steps, updates, printed, failed_at >>

\* output = model(input_data); the data and the model decide how many
\* samples of the batch are predicted as their target
EvalForward ==
    /\ pc = "e_forward"
    /\ IF LeNetForward(input_shape) = ShapeError
          THEN /\ Abort
               /\ UNCHANGED << output, matching, matched >>
          ELSE /\ output' = LeNetForward(input_shape)
               /\ \E k \in CorrectCounts(target_len) :
                     /\ matching' = k
                     /\ matched' = matched + k
               /\ pc' = "e_count"
               /\ UNCHANGED failed_at
    /\ UNCHANGED << varsD, vars2, vars4, seen, consumed, conf, accuracy, training, params, grads, exp_avg, epoch,
                    it, batch_ind, input_shape, target_len, on_device,
                    correct, steps, updates, printed >>

\* EvalCount as a loop that counted the batches predicted right throughout
EvalCountsBatches ==
    /\ pc = "e_count"
    /\ IF output[1] # target_len
          THEN /\ Abort
               /\ UNCHANGED correct
          ELSE /\ correct' = correct + (IF matching = target_len THEN 1 ELSE 0)
               /\ pc' = "e_pbar"
               /\ UNCHANGED failed_at
    /\ UNCHANGED << varsD, vars2, vars4, tally, consumed, conf, accuracy, training, params,
                    grads, exp_avg, epoch, it, batch_ind, input_shape,
                    target_len, on_device, output, steps, updates, printed >>

\* pred = output.argmax(dim=1)
\* correct += pred.eq(target_data.view_as(pred)).sum()
EvalCount ==
    /\ pc = "e_count"
    /\ IF output[1] # target_len
          THEN /\ Abort
               /\ UNCHANGED correct
          ELSE /\ correct' = correct + matching
               /\ pc' = "e_pbar"
               /\ UNCHANGED failed_at
    /\ UNCHANGED << varsD, vars2, vars4, tally, consumed, conf, accuracy, training, params, grads, exp_avg, epoch,
                    it, batch_ind, input_shape, target_len, on_device, output,
                    steps, updates, printed >>

\* pbar.update(1)
EvalPbar ==
    /\ pc = "e_pbar"
    /\ pc' = "e_fetch"
    /\ UNCHANGED << varsD, vars2, vars4, tally, consumed, conf, accuracy, training, params, grads, exp_avg, epoch,
                    it, batch_ind, input_shape, target_len, on_device, output,
                    correct, steps, updates, printed, failed_at >>

\* print(f'Test accuracy: {100. * int(correct) / len(MNIST_test)}%')
Report ==
    /\ pc = "report"
    /\ accuracy' = << 100 * correct, test_n >>
    /\ pc' = "done"
    /\ UNCHANGED << varsD, vars2, vars4, tally, consumed, conf, training, params, grads, exp_avg, epoch, it,
                    batch_ind, input_shape, target_len, on_device, output,
                    correct, steps, updates, printed, failed_at >>

\* any torch call of the evaluation loop body may raise
EvalRaise ==
    /\ pc \in EvalPcs \ {"e_pbar"}
    /\ Abort
    /\ UNCHANGED << varsD, vars2, vars4, tally, consumed, conf, accuracy, training, params, grads, exp_avg, epoch,
                    it, batch_ind, input_shape, target_len, on_device, output,
                    correct, steps, updates, printed >>

Evaluate ==
    \/ ModelEval \/ EvalInit \/ EvalFetch \/ EvalToDevice \/ EvalForward
    \/ EvalCount \/ EvalPbar \/ Report \/ EvalRaise

(***************************************************************************)
(* Notebook 3: CustomDataset                                               *)
(***************************************************************************)
\* assert division in ['train', 'test']
Divisions == {"train", "test"}

\* a name the notebook's globals do not bind
Unbound == "<unbound>"

\* f'x_{d}' and f'y_{d}'
ArrayName(prefix, d) == << prefix, d >>

\* the arrays an .npz file with train and test data holds
ArrayNames == { ArrayName(prefix, d) : prefix \in {"x", "y"}, d \in Divisions }

\* an array of n elements, each known by its array and its position
Array(name, n) == [ i \in 1 .. n |-> << name, i - 1 >> ]

\* the dataset is not in use
OffD ==
    /\ pcD = "off"
    /\ division = "train"
    /\ np_bound = FALSE
    /\ dtype = Unbound
    /\ npz = [ a \in ArrayNames |-> << >> ]
    /\ self_x = << >>
    /\ self_y = << >>
    /\ errorD = ""
    /\ returned = << >>

\* the cell defining CustomDataset has run. The notebook imports no numpy
\* and assigns no dtype (np_bound = FALSE, dtype = Unbound); a session may
\* have bound either name before the constructor is called.
StartD ==
    /\ pcD = "construct"
    /\ division \in Divisions \cup {"val"}
    /\ np_bound \in BOOLEAN
    /\ dtype \in Divisions \cup {Unbound}
    /\ \E lens \in [ ArrayNames -> 0 .. MaxArrayLen ] :
          npz = [ a \in ArrayNames |-> Array(a, lens[a]) ]
    /\ self_x = << >>
    /\ self_y = << >>
    /\ errorD = ""
    /\ returned = << >>

\* CustomDataset(filename, division)
CustomDataset_init ==
    /\ pcD = "construct"
    /\ IF division \notin Divisions
          THEN /\ errorD' = "AssertionError"
               /\ pcD' = "failed"
               /\ UNCHANGED << self_x, self_y >>
          ELSE IF ~np_bound
          THEN /\ errorD' = "NameError: np"
               /\ pcD' = "failed"
               /\ UNCHANGED << self_x, self_y >>
          ELSE IF dtype = Unbound
          THEN /\ errorD' = "NameError: dtype"
               /\ pcD' = "failed"
               /\ UNCHANGED << self_x, self_y >>
          ELSE /\ self_x' = npz[ArrayName("x", dtype)]
               /\ self_y' = npz[ArrayName("y", dtype)]
               /\ pcD' = "ready"
               /\ UNCHANGED errorD
    /\ UNCHANGED << vars2, vars3, vars4, division, np_bound, dtype, npz,
                    returned >>

\* len(dataset)
CustomDataset_len ==
    /\ pcD = "ready"
    /\ returned' = IF Len(self_x) = Len(self_y)
                      THEN << "len", Len(self_x) >>
                      ELSE << "AssertionError" >>
    /\ UNCHANGED << vars2, vars3, vars4, pcD, division, np_bound, dtype, npz,
                    self_x, self_y, errorD >>

\* dataset[ind], ind >= 0
CustomDataset_getitem ==
    /\ pcD = "ready"
    /\ \E ind \in 0 .. MaxArrayLen :
          returned' = IF ind < Len(self_x) /\ ind < Len(self_y)
                         THEN << "item", ind, self_x[ind + 1], self_y[ind + 1] >>
                         ELSE << "IndexError", ind >>
    /\ UNCHANGED << vars2, vars3, vars4, pcD, division, np_bound, dtype, npz,
                    self_x, self_y, errorD >>

Dataset == CustomDataset_init \/ CustomDataset_len \/ CustomDataset_getitem

(***************************************************************************)
(* Notebook 4: torchvision's AlexNet, its state_dict and the checkpoint    *)
(***************************************************************************)
\* alex.named_parameters(), in order
AlexNetNames ==
    << "features.0.weight", "features.0.bias", "features.3.weight",
       "features.3.bias", "features.6.weight", "features.6.bias",
       "features.8.weight", "features.8.bias", "features.10.weight",
       "features.10.bias", "classifier.1.weight", "classifier.1.bias",
       "classifier.4.weight", "classifier.4.bias", "classifier.6.weight",
       "classifier.6.bias" >>

\* the order in which a state_dict lists its entries
EntryOrder == AlexNetNames \o << "classifier.7.weight" >>

Range(seq) == { seq[i] : i \in 1 .. Len(seq) }

IndexOf(n) == CHOOSE i \in 1 .. Len(EntryOrder) : EntryOrder[i] = n

\* the parameters of classifier[6]
Classifier6 == { "classifier.6.weight", "classifier.6.bias" }

\* the shape of each parameter of torchvision.models.alexnet()
AlexNetShape(n) ==
    CASE n = "features.0.weight"    -> << 64, 3, 11, 11 >>
      [] n = "features.0.bias"      -> << 64 >>
      [] n = "features.3.weight"    -> << 192, 64, 5, 5 >>
      [] n = "features.3.bias"      -> << 192 >>
      [] n = "features.6.weight"    -> << 384, 192, 3, 3 >>
      [] n = "features.6.bias"      -> << 384 >>
      [] n = "features.8.weight"    -> << 256, 384, 3, 3 >>
      [] n = "features.8.bias"      -> << 256 >>
      [] n = "features.10.weight"   -> << 256, 256, 3, 3 >>
      [] n = "features.10.bias"     -> << 256 >>
      [] n = "classifier.1.weight"  -> << 4096, 9216 >>
      [] n = "classifier.1.bias"    -> << 4096 >>
      [] n = "classifier.4.weight"  -> << 4096, 4096 >>
      [] n = "classifier.4.bias"    -> << 4096 >>
      [] n = "classifier.6.weight"  -> << 1000, 4096 >>
      [] n = "classifier.6.bias"    -> << 1000 >>

\* the architectures a checkpointed model may have: AlexNet itself, AlexNet
\* with classifier[6] replaced by a 10-way Linear, by a Linear without bias,
\* and AlexNet with one more Linear appended to the classifier
Kinds == { "alexnet", "head10", "nobias", "extra" }

\* the names and shapes of the parameters of an architecture
Arch(kind) ==
    CASE kind = "alexnet" -> [ n \in Range(AlexNetNames) |-> AlexNetShape(n) ]
      [] kind = "head10"  ->
            [ n \in Range(AlexNetNames) |->
                IF n = "classifier.6.weight" THEN << 10, 4096 >>
                ELSE IF n = "classifier.6.bias" THEN << 10 >>
                ELSE AlexNetShape(n) ]
      [] kind = "nobias"  ->
            [ n \in Range(AlexNetNames) \ { "classifier.6.bias" } |->
                AlexNetShape(n) ]
      [] kind = "extra"   ->
            [ n \in Range(EntryOrder) |->
                IF n = "classifier.7.weight" THEN << 10, 1000 >>
                ELSE AlexNetShape(n) ]

\* a model of an architecture whose tensors hold the values a + b * index
NewModel(kind, a, b) ==
    [ n \in DOMAIN Arch(kind) |->
        [ shape |-> Arch(kind)[n], value |-> (a + b * IndexOf(n)) % ValueMod ] ]

\* optim.Adam(model.parameters(), lr): one parameter group
NewAdam(m, lr) == [ lr |-> lr, n |-> Cardinality(DOMAIN m) ]

\* torch.save of a state_dict: the entries are pickled one after another
Pickle(sd) ==
    LET keep(n) == n \in DOMAIN sd
        names == SelectSeq(EntryOrder, keep)
    IN  [ i \in 1 .. Len(names) |->
            << names[i], sd[names[i]].shape, sd[names[i]].value >> ]

\* torch.load of the pickled entries: the mapping is rebuilt by name
Unpickle(bytes) ==
    [ n \in { bytes[i][1] : i \in 1 .. Len(bytes) } |->
        LET i == CHOOSE j \in 1 .. Len(bytes) : bytes[j][1] = n
        IN  [ shape |-> bytes[i][2], value |-> bytes[i][3] ] ]

\* Module.load_state_dict(sd), strict: the keys the module expects and sd
\* lacks, the keys of sd the module does not have, the keys whose shapes
\* differ
MissingKeys(m, sd) == DOMAIN m \ DOMAIN sd
UnexpectedKeys(m, sd) == DOMAIN sd \ DOMAIN m
SizeMismatch(m, sd) ==
    { n \in DOMAIN m \cap DOMAIN sd : sd[n].shape # m[n].shape }

\* LoadRaises as load_state_dict(sd, strict=False) would raise
LoadRaisesNotStrict(m, sd) == SizeMismatch(m, sd) # {}

\* load_state_dict raises after visiting every module when any key is
\* missing, unexpected or of another size
LoadRaises(m, sd) ==
    \/ MissingKeys(m, sd) # {}
    \/ UnexpectedKeys(m, sd) # {}
    \/ SizeMismatch(m, sd) # {}

\* LoadedParams as a load that copied nothing
LoadedParamsCopiesNothing(m, sd) == m

\* LoadedParams as a load that copied every key present, whatever its shape
LoadedParamsCopiesAll(m, sd) ==
    [ n \in DOMAIN m |->
        IF n \in DOMAIN sd
          THEN [ shape |-> m[n].shape, value |-> sd[n].value ]
          ELSE m[n] ]

\* the parameters load_state_dict leaves behind: param.copy_(input_param)
\* for every key present with the module's shape, raising or not
LoadedParams(m, sd) ==
    [ n \in DOMAIN m |->
        IF n \in DOMAIN sd /\ sd[n].shape = m[n].shape
          THEN [ shape |-> m[n].shape, value |-> sd[n].value ]
          ELSE m[n] ]

\* no model, no file
Nothing == [ n \in {} |-> 0 ]
NoAdam == [ lr |-> 0, n |-> 0 ]
NoState == [ epoch |-> 0, state_dict |-> << >>, optimizer |-> NoAdam ]

\* the state the other variables of notebook 4 start in
Fresh4 ==
    /\ fz = 0
    /\ requires_grad = [ n \in Range(AlexNetNames) |-> TRUE ]
    /\ shown = << >>
    /\ model = Nothing
    /\ optimizer = NoAdam
    /\ file1 = << >>
    /\ replica = Nothing
    /\ file2 = NoState
    /\ old_state = NoState
    /\ at_save = Nothing
    /\ before_load = Nothing
    /\ load_result = "none"

\* notebook 4 is not the notebook being run
Off4 ==
    /\ pc4 = "off"
    /\ w_kind = "alexnet"
    /\ Fresh4

\* notebook 4 up to alex_pretrained = torchvision.models.alexnet(pretrained=True)
Start4 ==
    /\ pc4 = "freeze"
    /\ w_kind \in Kinds
    /\ Fresh4

\* Freeze as a loop over alex_pretrained.features.parameters() only
FreezeFeaturesOnly ==
    /\ pc4 = "freeze"
    /\ IF fz < Len(AlexNetNames)
          THEN /\ requires_grad' =
                     [ requires_grad EXCEPT ![AlexNetNames[fz + 1]] =
                         IF fz < 10 THEN FALSE ELSE @ ]
               /\ fz' = fz + 1
               /\ pc4' = pc4
          ELSE /\ pc4' = "replace"
               /\ UNCHANGED << requires_grad, fz >>
    /\ UNCHANGED << varsD, vars2, vars3, shown, w_kind, model, optimizer, file1,
                    replica, file2, old_state, at_save, before_load,
                    load_result >>

\* for param in alex_pretrained.parameters(): param.requires_grad = False
Freeze ==
    /\ pc4 = "freeze"
    /\ IF fz < Len(AlexNetNames)
          THEN /\ requires_grad' =
                     [ requires_grad EXCEPT ![AlexNetNames[fz + 1]] = FALSE ]
               /\ fz' = fz + 1
               /\ pc4' = pc4
          ELSE /\ pc4' = "replace"
               /\ UNCHANGED << requires_grad, fz >>
    /\ UNCHANGED << varsD, vars2, vars3, shown, w_kind, model, optimizer, file1,
                    replica, file2, old_state, at_save, before_load,
                    load_result >>

\* alex_pretrained.classifier[6] = nn.Linear(in_features=4096,
\* out_features=1000, bias=True): the new module's parameters have
\* requires_grad = True
ReplaceClassifier ==
    /\ pc4 = "replace"
    /\ requires_grad' =
          [ n \in DOMAIN requires_grad |->
              IF n \in Classifier6 THEN TRUE ELSE requires_grad[n] ]
    /\ pc4' = "show"
    /\ UNCHANGED << varsD, vars2, vars3, fz, shown, w_kind, model, optimizer, file1,
                    replica, file2, old_state, at_save, before_load,
                    load_result >>

\* for name, param in alex_pretrained.named_parameters(): print(...)
ShowRequiresGrad ==
    /\ pc4 = "show"
    /\ shown' = [ i \in 1 .. Len(AlexNetNames) |->
                    << AlexNetNames[i], requires_grad[AlexNetNames[i]] >> ]
    /\ pc4' = "build"
    /\ UNCHANGED << varsD, vars2, vars3, fz, requires_grad, w_kind, model, optimizer,
                    file1, replica, file2, old_state, at_save, before_load,
                    load_result >>

\* model = torchvision.models.alexnet(pretrained=True)
\* optimizer = optim.Adam(model.parameters(), lr=5e-3)   (lr in 1e-3)
BuildModel ==
    /\ pc4 = "build"
    /\ \E a \in Values, b \in Values :
          /\ model' = NewModel(w_kind, a, b)
          /\ optimizer' = NewAdam(NewModel(w_kind, a, b), 5)
    /\ pc4' = "save_whole"
    /\ UNCHANGED << varsD, vars2, vars3, fz, requires_grad, shown, w_kind, file1,
                    replica, file2, old_state, at_save, before_load,
                    load_result >>

\* torch.save(model, PATH)
SaveWhole ==
    /\ pc4 = "save_whole"
    /\ file1' = Pickle(model)
    /\ pc4' = "load_whole"
    /\ UNCHANGED << varsD, vars2, vars3, fz, requires_grad, shown, w_kind, model,
                    optimizer, replica, file2, old_state, at_save,
                    before_load, load_result >>

\* replica = torch.load(PATH)
LoadWhole ==
    /\ pc4 = "load_whole"
    /\ replica' = Unpickle(file1)
    /\ pc4' = "save_state"
    /\ UNCHANGED << varsD, vars2, vars3, fz, requires_grad, shown, w_kind, model,
                    optimizer, file1, file2, old_state, at_save, before_load,
                    load_result >>

\* state = {'epoch': 30, 'state_dict': model.state_dict(),
\*          'optimizer': optimizer.state_dict()}; torch.save(state, PATH)
SaveState ==
    /\ pc4 = "save_state"
    /\ file2' = [ epoch |-> 30, state_dict |-> Pickle(model),
                  optimizer |-> optimizer ]
    /\ at_save' = model
    /\ pc4' = "fresh"
    /\ UNCHANGED << varsD, vars2, vars3, fz, requires_grad, shown, w_kind, model,
                    optimizer, file1, replica, old_state, before_load,
                    load_result >>

\* model = torchvision.models.alexnet(); optimizer = optim.Adam(model.parameters())
\* (Adam's default lr is 1e-3)
FreshModel ==
    /\ pc4 = "fresh"
    /\ \E a \in Values, b \in Values :
          /\ model' = NewModel("alexnet", a, b)
          /\ optimizer' = NewAdam(NewModel("alexnet", a, b), 1)
    /\ pc4' = "torch_load"
    /\ UNCHANGED << varsD, vars2, vars3, fz, requires_grad, shown, w_kind, file1,
                    replica, file2, old_state, at_save, before_load,
                    load_result >>

\* old_state = torch.load(PATH)
TorchLoad ==
    /\ pc4 = "torch_load"
    /\ old_state' = [ epoch |-> file2.epoch,
                      state_dict |-> Unpickle(file2.state_dict),
                      optimizer |-> file2.optimizer ]
    /\ pc4' = "load_model"
    /\ UNCHANGED << varsD, vars2, vars3, fz, requires_grad, shown, w_kind, model,
                    optimizer, file1, replica, file2, at_save, before_load,
                    load_result >>

\* model.load_state_dict(old_state['state_dict'])
LoadModel ==
    /\ pc4 = "load_model"
    /\ before_load' = model
    /\ model' = LoadedParams(model, old_state.state_dict)
    /\ IF LoadRaises(model, old_state.state_dict)
          THEN /\ load_result' = "error"
               /\ pc4' = "aborted"
          ELSE /\ load_result' = "ok"
               /\ pc4' = "load_optimizer"
    /\ UNCHANGED << varsD, vars2, vars3, fz, requires_grad, shown, w_kind, optimizer,
                    file1, replica, file2, old_state, at_save >>

\* optimizer.load_state_dict(old_state['optimizer']): raises when the saved
\* parameter group does not hold as many parameters as the optimizer's
LoadOptimizer ==
    /\ pc4 = "load_optimizer"
    /\ IF old_state.optimizer.n # optimizer.n
          THEN /\ pc4' = "aborted"
               /\ UNCHANGED optimizer
          ELSE /\ optimizer' = old_state.optimizer
               /\ pc4' = "done"
    /\ UNCHANGED << varsD, vars2, vars3, fz, requires_grad, shown, w_kind, model,
                    file1, replica, file2, old_state, at_save, before_load,
                    load_result >>

Notebook4 ==
    \/ Freeze \/ ReplaceClassifier \/ ShowRequiresGrad \/ BuildModel
    \/ SaveWhole \/ LoadWhole \/ SaveState \/ FreshModel \/ TorchLoad
    \/ LoadModel \/ LoadOptimizer

(***************************************************************************)
(* Notebook 2: calling a model on a tensor X                               *)
(***************************************************************************)
\* the activations entering dropout1 that are followed: two of the 64*2*2
FeatIndex == {1, 2}

\* the image sides tried for X: too small for the first convolution, the
\* side the network was written for, and a larger one
Sides(cls) == IF cls = "LeNet" THEN {4, 28, 36} ELSE {7, 23, 63}

\* the channels of the images the network's first convolution takes
Channels(cls) == IF cls = "LeNet" THEN 1 ELSE 3

\* the shape of model(x)
ForwardShape(cls, nc, x) ==
    IF cls = "LeNet" THEN LeNetForward(x) ELSE SimpleNetForward(x, nc)

\* Dropout as a layer that ignored the module's mode
DropoutInEveryMode(v, drop, train) ==
    [ i \in 1 .. Len(v) |-> IF drop[i] THEN 0 ELSE 10 * v[i] ]

\* nn.Dropout(p=0.3) on activations v, in sevenths: in training mode an
\* element is zeroed where drop holds and scaled by 1/(1-p) = 10/7 elsewhere;
\* in evaluation mode the layer is the identity
Dropout(v, drop, train) ==
    [ i \in 1 .. Len(v) |->
        IF train THEN (IF drop[i] THEN 0 ELSE 10 * v[i]) ELSE 7 * v[i] ]

\* nn.Linear on the activations: a fixed weighted sum (weights 1, 2, ...)
RECURSIVE WeightedSum(_, _)
WeightedSum(d, n) == IF n = 0 THEN 0 ELSE n * d[n] + WeightedSum(d, n - 1)

\* the value SimpleNet.forward computes from the activations: dropout1, fc1
SimpleNetValue(v, drop, train) == WeightedSum(Dropout(v, drop, train), Len(v))

\* the value LeNet.forward computes from the activations: no dropout layer
LeNetValue(v) == WeightedSum([ i \in 1 .. Len(v) |-> 7 * v[i] ], Len(v))

\* notebook 2 is not the notebook being run
Off2 ==
    /\ pc2 = "off"
    /\ net = "SimpleNet"
    /\ num_classes = 10
    /\ X = ShapeError
    /\ features = << >>
    /\ net_training = TRUE
    /\ out_shape = ShapeError
    /\ outs = << >>

\* X = torch.randn(...); model = SimpleNet(...) or LeNet()
Start2 ==
    /\ pc2 = "ready"
    /\ net \in { "LeNet", "SimpleNet" }
    /\ num_classes \in IF net = "LeNet" THEN {10} ELSE {2, 10}
    /\ \E b \in 1 .. MaxBatch, sd \in Sides(net) :
          X = << b, Channels(net), sd, sd >>
    /\ features \in [ FeatIndex -> Values ]
    /\ net_training = TRUE
    /\ out_shape = ShapeError
    /\ outs = << >>

\* model.train()
SetTrain ==
    /\ pc2 = "ready"
    /\ net_training' = TRUE
    /\ UNCHANGED << varsD, vars3, vars4, pc2, net, num_classes, X, features,
                    out_shape, outs >>

\* model.eval()
SetEval ==
    /\ pc2 = "ready"
    /\ net_training' = FALSE
    /\ UNCHANGED << varsD, vars3, vars4, pc2, net, num_classes, X, features,
                    out_shape, outs >>

\* the last two forward passes, the newest last
Remember(passes, p) ==
    IF Len(passes) < 2 THEN Append(passes, p) ELSE << passes[2], p >>

\* model(X)
Call ==
    /\ pc2 = "ready"
    /\ IF ForwardShape(net, num_classes, X) = ShapeError
          THEN /\ pc2' = "aborted"
               /\ UNCHANGED << out_shape, outs >>
          ELSE /\ pc2' = pc2
               /\ out_shape' = ForwardShape(net, num_classes, X)
               /\ \E drop \in [ FeatIndex -> BOOLEAN ] :
                     outs' = Remember(outs,
                        << net_training,
                           IF net = "LeNet" THEN LeNetValue(features)
                           ELSE SimpleNetValue(features, drop, net_training) >>)
    /\ UNCHANGED << varsD, vars3, vars4, net, num_classes, X, features,
                    net_training >>

Notebook2 == SetTrain \/ SetEval \/ Call

(***************************************************************************)
(* The run of one notebook                                                 *)
(***************************************************************************)
Init ==
    \/ Start2 /\ Off3 /\ Off4 /\ OffD
    \/ Off2 /\ Start3 /\ Off4 /\ OffD
    \/ Off2 /\ Off3 /\ Start4 /\ OffD
    \/ Off2 /\ Off3 /\ Off4 /\ StartD

Next == Notebook2 \/ Train \/ Evaluate \/ Notebook4 \/ Dataset

Spec == Init /\ [][Next]_vars

(***************************************************************************)
(* Properties                                                              *)
(***************************************************************************)
\* the six steps of a batch, in the order of the loop body
StepOrder == << "to_device", "forward", "loss", "zero_grad", "backward", "step" >>

\* the steps of the current batch completed when the run is at statement p
DoneBefore(p) ==
    CASE p = "to_device" -> 0
      [] p = "forward"   -> 1
      [] p = "loss"      -> 2
      [] p = "zero_grad" -> 3
      [] p = "backward"  -> 4
      [] p = "step"      -> 5
      [] p = "print"     -> 6

\* the state of the optimizer loop: forward once the prediction exists,
\* loss-computed once the loss exists, updated once the step was applied
LoopState ==
    CASE pc = "loss"                                -> "forward"
      [] pc \in {"zero_grad", "backward", "step"}   -> "loss-computed"
      [] pc = "print"                               -> "updated"
      [] OTHER                                      -> "idle"

LoopCycle ==
    { << "idle", "forward" >>, << "forward", "loss-computed" >>,
      << "loss-computed", "updated" >>, << "updated", "idle" >> }

\* C1: for every batch the six steps run once each in the order move to
\* device, forward, loss, zero_grad, backward, step: at every statement of
\* the loop body the steps done for the batch are the prefix of that order,
\* a batch that is left has done all six, an update is only ever taken
\* right after the zero_grad and the backward of the same batch, and the loop
\* state moves idle -> forward -> loss-computed -> updated -> idle (or the
\* run aborts).
C1_StepsInOrder ==
    /\ [](pc \in TrainPcs => steps = SubSeq(StepOrder, 1, DoneBefore(pc)))
    /\ [](pc \in {"fetch", "epoch_end"} /\ it > 0 => steps = StepOrder)
    /\ [][updates' # updates =>
            /\ steps = SubSeq(StepOrder, 1, 5)
            /\ steps' = StepOrder
            /\ updates' = updates + 1]_vars
    /\ [][LoopState' # LoopState =>
            \/ << LoopState, LoopState' >> \in LoopCycle
            \/ pc' = "aborted"]_vars

\* C1 witness: the second batch of an epoch has taken all six steps
C1_Witness ==
    /\ pc = "print"
    /\ batch_ind = 1
    /\ updates >= 2
    /\ steps = StepOrder

\* C2: once load_state_dict has succeeded on the fresh model, every named
\* parameter of the fresh model has the shape and value it had in the saved
\* model when the state was saved.
C2_RoundTrip == load_result = "ok" => model = at_save

\* C2 witness: a load succeeded on a fresh model whose values were others
\* than the saved ones, and the saved values are not all alike
C2_Witness ==
    /\ load_result = "ok"
    /\ model = at_save
    /\ \E n \in DOMAIN at_save : before_load[n].value # at_save[n].value
    /\ \E n, k \in DOMAIN at_save : at_save[n].value # at_save[k].value

\* C3 as stated: after a load that raised because of a shape mismatch every
\* parameter of the target model has the value it had before the load.
C3_LoadErrorLeavesModel ==
    (load_result = "error" /\ SizeMismatch(before_load, old_state.state_dict) # {})
        => model = before_load

\* C3 as amended: a record with a parameter of another shape makes the load
\* raise; afterwards the parameters whose shape differs or that the record
\* lacks have the value they had, and the parameters whose name and shape
\* match hold the record's value.
C3_LoadErrorKeepsMismatched ==
    (load_result # "none" /\ SizeMismatch(before_load, old_state.state_dict) # {})
        => /\ load_result = "error"
           /\ pc4 = "aborted"
           /\ \A n \in DOMAIN model :
                 model[n] =
                   IF n \in DOMAIN old_state.state_dict
                        /\ n \notin SizeMismatch(before_load, old_state.state_dict)
                     THEN [ shape |-> before_load[n].shape,
                            value |-> old_state.state_dict[n].value ]
                     ELSE before_load[n]

\* C3 witness: a load raised on a shape mismatch and changed a parameter
C3_Witness ==
    /\ load_result = "error"
    /\ SizeMismatch(before_load, old_state.state_dict) # {}
    /\ model # before_load
    /\ \E n \in SizeMismatch(before_load, old_state.state_dict) :
          old_state.state_dict[n].value # before_load[n].value

\* C4: load_state_dict succeeds exactly when the record's names are the
\* model's names and every shape agrees; otherwise it raises and the run
\* stops there.
C4_LoadSucceedsIffMatch ==
    load_result # "none" =>
        /\ load_result = "ok" <=>
              /\ DOMAIN old_state.state_dict = DOMAIN before_load
              /\ \A n \in DOMAIN before_load :
                    old_state.state_dict[n].shape = before_load[n].shape
        /\ load_result = "error" <=> pc4 = "aborted"

\* C4 witness: a record lacking a parameter the model expects was refused
C4_Witness ==
    /\ load_result = "error"
    /\ pc4 = "aborted"
    /\ "classifier.6.bias" \in DOMAIN before_load \ DOMAIN old_state.state_dict

\* C5: the model is in one mode at a time; every statement of the training
\* loop body runs in training mode and every statement of the evaluation
\* loop body in evaluation mode.
C5_ModeMatchesPhase ==
    /\ training \in BOOLEAN
    /\ pc \in TrainPcs => training
    /\ pc \in EvalPcs => ~training

\* C5 witness: an inference batch is about to be forwarded after training
C5_Witness ==
    /\ pc = "e_forward"
    /\ updates > 0
    /\ ~training

\* C6: a forward pass that completes returns (B, 10) from LeNet and
\* (B, num_classes) from SimpleNet for an input of B rows.
C6_OutputRowsAreBatchRows ==
    out_shape # ShapeError =>
        out_shape = << X[1], IF net = "LeNet" THEN 10 ELSE num_classes >>

\* C7: two successive forward passes of the same input in evaluation mode
\* return the same output.
C7_EvalIsDeterministic ==
    (Len(outs) = 2 /\ ~outs[1][1] /\ ~outs[2][1]) => outs[1][2] = outs[2][2]

\* C7 witness: SimpleNet made two successive passes in evaluation mode on
\* activations dropout would change
C7_Witness ==
    /\ net = "SimpleNet"
    /\ Len(outs) = 2
    /\ ~outs[1][1]
    /\ ~outs[2][1]
    /\ outs[1][2] = outs[2][2]
    /\ \A i \in FeatIndex : features[i] # 0

\* C7, the training half: two successive passes of SimpleNet in training
\* mode that differ (a state the model reaches)
C7_TrainingPassesDiffer ==
    /\ net = "SimpleNet"
    /\ Len(outs) = 2
    /\ outs[1][1]
    /\ outs[2][1]
    /\ outs[1][2] # outs[2][2]

\* C8: a step of a batch that fails stops the run at once: a failure is only
\* ever recorded with the run aborted, nothing of the run changes after it
\* (no retry, no later batch or epoch, no update), and a shape mismatch at
\* the forward pass or at the loss is such a failure.
C8_FailureAborts ==
    /\ [](failed_at # "" => pc = "aborted")
    /\ [][failed_at # "" => UNCHANGED vars3]_vars
    /\ [][( \/ pc = "forward" /\ LeNetForward(input_shape) = ShapeError
            \/ pc = "loss" /\ output[1] # target_len )
            => /\ pc' = "aborted"
               /\ failed_at' = pc
               /\ UNCHANGED << updates, params, it, epoch, steps >>]_vars

\* C8 witness: the loss of the first batch failed on a shape mismatch with
\* batches and epochs still to come
C8_Witness ==
    /\ pc = "aborted"
    /\ failed_at = "loss"
    /\ output[1] # target_len
    /\ it < LoaderLen(train_n)
    /\ epoch + 1 < epochs
    /\ updates = 0

\* C9: the parameters change only in the optimizer's update step; every other
\* statement of the training and evaluation cells leaves them as they are,
\* and so does saving a checkpoint.
C9_OnlyStepWritesParams ==
    [][ /\ params' # params => (pc = "step" /\ pc' = "print")
        /\ pc4 \in {"save_whole", "save_state"} => model' = model ]_vars

\* C9 witness: training moved the parameters and evaluation has run
C9_Witness ==
    /\ pc = "done"
    /\ updates >= 2
    /\ exp_avg # 0

\* C10: once every parameter has been frozen and classifier[6] replaced, the
\* parameters with requires_grad = True are exactly classifier.6.weight and
\* classifier.6.bias.
C10_OnlyClassifier6Trainable ==
    pc4 \notin {"off", "freeze", "replace"} =>
        \A n \in Range(AlexNetNames) : requires_grad[n] <=> n \in Classifier6

\* C10 witness: the named_parameters loop has shown the frozen network
C10_Witness ==
    /\ pc4 = "build"
    /\ Len(shown) = Len(AlexNetNames)
    /\ \A i \in 1 .. Len(shown) : shown[i][2] <=> shown[i][1] \in Classifier6

\* C11: throughout the evaluation loop 0 <= correct <= the test samples
\* yielded so far; between batches and after the loop correct is the number
\* of forwarded samples whose prediction is the target; the loop ends with
\* every sample of the test set yielded once, short last batch included;
\* the accuracy written is 100 * correct / len(MNIST_test), within [0, 100].
C11_CorrectCountsMatches ==
    /\ 0 <= correct
    /\ correct <= seen
    /\ seen <= test_n
    /\ pc \in {"e_fetch", "e_to_device", "e_forward", "e_pbar", "report", "done"}
          => correct = matched
    /\ pc = "e_fetch" => seen = IF it * batch_size < test_n
                                 THEN it * batch_size ELSE test_n
    /\ pc \in {"report", "done"} => seen = test_n
    /\ pc = "done" =>
          /\ accuracy = << 100 * matched, test_n >>
          /\ 0 <= accuracy[1]
          /\ accuracy[1] <= 100 * accuracy[2]

\* C11 witness: a test set whose last batch is short was counted to the end,
\* with some predictions right and some wrong
C11_Witness ==
    /\ pc = "done"
    /\ test_n % batch_size # 0
    /\ test_n > batch_size
    /\ 0 < correct
    /\ correct < test_n
    /\ accuracy = << 100 * correct, test_n >>

\* every << epoch, batch_ind >> of e epochs over a loader of n batches, in order
AllBatches(e, n) ==
    [ i \in 1 .. e * n |-> << (i - 1) \div n, (i - 1) % n >> ]

\* the training loop was left without a failure
TrainingEnded ==
    \/ pc \in {"model_eval", "e_init", "e_fetch", "report", "done"} \cup EvalPcs
    \/ pc = "aborted" /\ failed_at \in EvalPcs

\* the training loop is running
InTraining ==
    pc \in {"model_train", "epoch_head", "fetch", "epoch_end"} \cup TrainPcs

\* statements one batch takes: its fetch, the six steps, the progress line
BatchCost == Len(StepOrder) + 2

\* statements one epoch takes: its head, its batches, the fetch that finds
\* the loader exhausted, and its end
EpochCost == BatchCost * LoaderLen(train_n) + 3

\* statements left of the current epoch once the loader has yielded it batches
RestOfEpoch == BatchCost * (LoaderLen(train_n) - it) + 2

\* statements the training loop has left to run when nothing fails
Remaining ==
    CASE pc = "model_train" -> epochs * EpochCost + 2
      [] pc = "epoch_head"  -> (epochs - epoch) * EpochCost + 1
      [] pc = "fetch"       -> (epochs - epoch - 1) * EpochCost + 1 + RestOfEpoch
      [] pc \in TrainPcs    -> (epochs - epoch - 1) * EpochCost + 1 + RestOfEpoch
                                  + Len(StepOrder) + 1 - DoneBefore(pc)
      [] pc = "epoch_end"   -> (epochs - epoch - 1) * EpochCost + 2
      [] OTHER              -> 0

\* C12: the training loop ends: while it runs there is a statement to take,
\* and every statement either aborts the run or leaves one statement less of
\* a finite number to run; when the loop has ended,
\* every batch of the loader was yielded once per epoch, in order,
\* epochs * len(train_data_loader) update steps were applied, and the
\* progress lines are those of the batches with batch_ind % print_every = 0;
\* a progress line is only written after the update step of its batch.
C12_TrainingTerminates ==
    [][/\ InTraining =>
            /\ Remaining > 0
            /\ \/ pc' = "aborted"
               \/ Remaining' = Remaining - 1
       /\ InTraining => ENABLED Train
       /\ InTraining' => (ENABLED Train)'
       /\ TrainingEnded' =>
            /\ consumed' = AllBatches(epochs, LoaderLen(train_n))
            /\ updates' = epochs * LoaderLen(train_n)
            /\ printed' = SelectSeq(AllBatches(epochs, LoaderLen(train_n)),
                                    LAMBDA b : b[2] % print_every = 0)
       /\ printed' # printed =>
            /\ steps = StepOrder
            /\ updates = Len(consumed)
            /\ printed' = Append(printed, consumed[Len(consumed)])
            /\ batch_ind % print_every = 0
       /\ (pc = "print" /\ pc' # pc /\ batch_ind % print_every = 0)
            => printed' # printed]_vars

\* C12 witness: two epochs over three batches, the last one short, ended
\* with a progress line for every second batch
C12_Witness ==
    /\ pc = "model_eval"
    /\ epochs = 2
    /\ print_every = 2
    /\ LoaderLen(train_n) = 3
    /\ train_n % batch_size # 0
    /\ updates = 6
    /\ printed = << << 0, 0 >>, << 0, 2 >>, << 1, 0 >>, << 1, 2 >> >>

\* C13: CustomDataset(filename, division) fails the assertion when division
\* is neither 'train' nor 'test'; otherwise it succeeds and holds the arrays
\* x_<division> and y_<division> of the file, len(dataset) is the common
\* length of x and y (asserted equal), and dataset[ind] is (x[ind], y[ind]).
C13_DatasetLoadsDivision ==
    /\ (pcD \in {"ready", "failed"} /\ division \notin Divisions)
          => (pcD = "failed" /\ errorD = "AssertionError")
    /\ (pcD \in {"ready", "failed"} /\ division \in Divisions)
          => /\ pcD = "ready"
             /\ self_x = npz[ArrayName("x", division)]
             /\ self_y = npz[ArrayName("y", division)]
    /\ (returned # << >> /\ returned[1] = "len")
          => /\ Len(self_x) = Len(self_y)
             /\ returned[2] = Len(self_x)
    /\ (returned # << >> /\ returned[1] = "item")
          => /\ returned[3] = self_x[returned[2] + 1]
             /\ returned[4] = self_y[returned[2] + 1]

====
